---- MODULE Spec2Model ----
(***************************************************************************)
(* proxy-tools: the file-check tool (proxy_checker.py) and the aggregation *)
(* tool (proxy_finder.py).  Both run one probe per candidate on a          *)
(* ThreadPoolExecutor and consume the outcomes with as_completed.          *)
(*                                                                         *)
(* A Python string is a sequence of tokens (atomic substrings), so that    *)
(* strip(), startswith(), the "in" test and f-string formatting are        *)
(* computed, not assumed.  A call that may raise evaluates to              *)
(* [tag |-> "return", value |-> v] or [tag |-> "raise", exc |-> e].        *)
(***************************************************************************)
EXTENDS Integers, Sequences, FiniteSets, TLC

(***************************************************************************)
(* Bounds of the model.                                                    *)
(***************************************************************************)
MaxLines == 3
MaxWorkers == 2
MaxPerSource == 2

(***************************************************************************)
(* Program constants.                                                      *)
(***************************************************************************)
checker_default_max_workers == 10
finder_default_max_workers == 20
fetch_max_workers == 5

(***************************************************************************)
(* Strings.                                                                *)
(***************************************************************************)
Whitespace == {" ", "\n", "\r", "\t"}

RECURSIVE lstrip(_)
lstrip(s) ==
    IF s # <<>> /\ Head(s) \in Whitespace THEN lstrip(Tail(s)) ELSE s

RECURSIVE rstrip(_)
rstrip(s) ==
    IF s # <<>> /\ s[Len(s)] \in Whitespace
    THEN rstrip(SubSeq(s, 1, Len(s) - 1))
    ELSE s

strip(s) == rstrip(lstrip(s))

startswith(s, tok) == s # <<>> /\ Head(s) = tok

contains(s, tok) == \E i \in 1..Len(s) : s[i] = tok

Range(s) == {s[i] : i \in 1..Len(s)}

(***************************************************************************)
(* Results of calls that may raise.                                        *)
(***************************************************************************)
Return(v) == [tag |-> "return", value |-> v]

Raise(cls, msg) == [tag |-> "raise", exc |-> [cls |-> cls, msg |-> msg]]

\* isinstance(e, requests.exceptions.RequestException)
IsRequestException(e) == e.cls = "RequestException"

\* isinstance(e, Exception): RequestException is a subclass of Exception
IsException(e) == e.cls \in {"RequestException", "Exception"}

str(e) == e.msg

(***************************************************************************)
(* What requests.get(test_url, proxies=...) can do for one probe: raise a  *)
(* transport error (a RequestException), raise something else, or return a *)
(* response with a status code, a body and the time it took (in ms).       *)
(* A body is described by what json.loads makes of it: a dict (with the    *)
(* keys it has), a list, or no JSON at all.                                *)
(***************************************************************************)
BodyOrigin == [json |-> "dict", origin |-> "9.9.9.9"]
BodyNoOrigin == [json |-> "dict", message |-> "ok"]
BodyList == [json |-> "list"]
\* response.json() raises requests.exceptions.JSONDecodeError (a
\* RequestException) in requests >= 2.27 and a plain ValueError before.
BodyNotJson == [json |-> "invalid", decode_error |-> "RequestException"]
BodyNotJsonOld == [json |-> "invalid", decode_error |-> "Exception"]

Elapsed == 123

TransportError ==
    [kind |-> "raise", exc |-> [cls |-> "RequestException", msg |-> <<"ConnectTimeout">>]]
UnexpectedError ==
    [kind |-> "raise", exc |-> [cls |-> "Exception", msg |-> <<"Failed to parse">>]]
HttpResponse(code, body) ==
    [kind |-> "response", status_code |-> code, body |-> body, elapsed |-> Elapsed]

ProbeResponses ==
    {TransportError, UnexpectedError}
    \cup {HttpResponse(c, BodyNotJson) : c \in {403, 500}}
    \cup {HttpResponse(200, b) :
            b \in {BodyOrigin, BodyNoOrigin, BodyList, BodyNotJson, BodyNotJsonOld}}

\* The responses the probes of a whole run draw from: a transport error, a
\* success, and a success whose body is no JSON.
RunnerResponses ==
    {TransportError, HttpResponse(200, BodyOrigin), HttpResponse(200, BodyNotJsonOld)}

\* response.json()
response_json(response) ==
    IF response.body.json = "invalid"
    THEN Raise(response.body.decode_error, <<"Expecting value">>)
    ELSE Return(response.body)

\* A variant that gives the default although the key is there.
dict_get_default(data, key, default) ==
    IF data.json # "dict"
    THEN Raise("Exception", <<"object has no attribute 'get'">>)
    ELSE Return(default)

\* data.get(key, default): only a dict has .get
dict_get(data, key, default) ==
    IF data.json # "dict"
    THEN Raise("Exception", <<"object has no attribute 'get'">>)
    ELSE Return(IF key \in DOMAIN data THEN data[key] ELSE default)

\* round(seconds, 2), on a time in milliseconds
round2(ms) == ((ms + 5) \div 10) * 10

(***************************************************************************)
(* proxy_checker.py: check_proxy                                           *)
(***************************************************************************)
\* The body of the try block, lines 23-45.
check_proxy_try(proxy, response) ==
    IF response.kind = "raise"
    THEN [tag |-> "raise", exc |-> response.exc]
    ELSE IF response.status_code = 200
    THEN LET data == response_json(response) IN
         IF data.tag = "raise" THEN data
         ELSE LET real_ip == dict_get(data.value, "origin", "unknown") IN
              IF real_ip.tag = "raise" THEN real_ip
              ELSE Return([proxy |-> proxy,
                           status |-> "working",
                           response_time |-> response.elapsed,
                           real_ip |-> real_ip.value])
    ELSE Return([proxy |-> proxy,
                 status |-> "failed",
                 error |-> <<"HTTP ", ToString(response.status_code)>>])

\* A variant without the handlers of lines 47-58.
check_proxy_unhandled(proxy, response) == check_proxy_try(proxy, response)

\* The try block with its two handlers, lines 22-58.
check_proxy(proxy, response) ==
    LET r == check_proxy_try(proxy, response) IN
    IF r.tag = "return" THEN r
    ELSE IF IsRequestException(r.exc)
    THEN Return([proxy |-> proxy, status |-> "failed", error |-> str(r.exc)])
    ELSE IF IsException(r.exc)
    THEN Return([proxy |-> proxy,
                 status |-> "failed",
                 error |-> <<"Unexpected error: ">> \o str(r.exc)])
    ELSE r

(***************************************************************************)
(* proxy_finder.py: ProxyFinder.check_proxy                                *)
(***************************************************************************)
\* A variant whose except branch also reports the parse error.
ProxyFinder_parse_ok_error(proxy, response) ==
    LET data == response_json(response)
        real_ip == IF data.tag = "raise" THEN data
                   ELSE dict_get(data.value, "origin", "unknown")
    IN  IF real_ip.tag = "return"
        THEN Return([proxy |-> proxy,
                     status |-> "working",
                     response_time |-> round2(response.elapsed),
                     real_ip |-> real_ip.value,
                     protocol |-> "http"])
        ELSE Return([proxy |-> proxy,
                     status |-> "working",
                     response_time |-> round2(response.elapsed),
                     error |-> str(real_ip.exc),
                     protocol |-> "http"])

\* The inner try of lines 104-120: any failure to parse keeps 'working'.
ProxyFinder_parse_ok(proxy, response) ==
    LET data == response_json(response)
        real_ip == IF data.tag = "raise" THEN data
                   ELSE dict_get(data.value, "origin", "unknown")
    IN  IF real_ip.tag = "return"
        THEN Return([proxy |-> proxy,
                     status |-> "working",
                     response_time |-> round2(response.elapsed),
                     real_ip |-> real_ip.value,
                     protocol |-> "http"])
        ELSE Return([proxy |-> proxy,
                     status |-> "working",
                     response_time |-> round2(response.elapsed),
                     protocol |-> "http"])

\* A variant that takes every response for a success.
ProxyFinder_check_proxy_try_any(proxy, response) ==
    IF response.kind = "raise"
    THEN [tag |-> "raise", exc |-> response.exc]
    ELSE ProxyFinder_parse_ok(proxy, response)

\* The body of the outer try, lines 89-126.
ProxyFinder_check_proxy_try(proxy, response) ==
    IF response.kind = "raise"
    THEN [tag |-> "raise", exc |-> response.exc]
    ELSE IF response.status_code = 200
    THEN ProxyFinder_parse_ok(proxy, response)
    ELSE Return([proxy |-> proxy,
                 status |-> "failed",
                 error |-> <<"HTTP ", ToString(response.status_code)>>])

\* Lines 88-133.
ProxyFinder_check_proxy(proxy, response) ==
    LET r == ProxyFinder_check_proxy_try(proxy, response) IN
    IF r.tag = "return" THEN r
    ELSE IF IsException(r.exc)
    THEN Return([proxy |-> proxy, status |-> "failed", error |-> str(r.exc)])
    ELSE r

\* The probe of one tool.
probe(t, proxy, response) ==
    IF t = "checker"
    THEN check_proxy(proxy, response)
    ELSE ProxyFinder_check_proxy(proxy, response)

(***************************************************************************)
(* Candidates, input files and list sources.                               *)
(***************************************************************************)
CandA == <<"1.1.1.1", ":", "80">>
CandB == <<"2.2.2.2", ":", "8080">>
CandMalformed == <<"localhost">>

LineA == CandA \o <<"\n">>
LineB == <<" ">> \o CandB \o <<" ", "\n">>
LineComment == <<"#", " proxies", "\n">>
LineBlank == <<"\n">>

FileLines == {LineA, LineB, LineComment, LineBlank}

\* open(filename) raises FileNotFoundError, or the file's lines are read.
NoFile == [exists |-> FALSE, lines |-> <<>>]
Files == {[exists |-> TRUE, lines |-> l] :
            l \in UNION {[1..n -> FileLines] : n \in 0..MaxLines}}

\* proxy_checker.py line 66: the list comprehension over the file's lines.
RECURSIVE load_proxies(_)
load_proxies(f) ==
    IF f = <<>> THEN <<>>
    ELSE LET line == Head(f) IN
         IF strip(line) # <<>> /\ ~startswith(line, "#")
         THEN <<strip(line)>> \o load_proxies(Tail(f))
         ELSE load_proxies(Tail(f))

\* ProxyFinder.__init__: self.sources (the url is the environment's).
sources ==
    << [name |-> "free-proxy-list.net", parser |-> "parse_free_proxy_list"],
       [name |-> "proxy-list.download HTTP", parser |-> "parse_proxy_list_download"],
       [name |-> "proxy-list.download HTTPS", parser |-> "parse_proxy_list_download"],
       [name |-> "proxyscrape HTTP", parser |-> "parse_proxyscrape"] >>

\* A variant without built-in candidates.
test_proxies_none == <<>>

\* The built-in candidates of find_working_proxies, lines 160-165.
test_proxies ==
    << <<"8.8.8.8", ":", "80">>, <<"1.1.1.1", ":", "80">>,
       <<"208.67.222.222", ":", "80">>, <<"208.67.220.220", ":", "80">> >>

\* A source's body: what json.loads makes of it, and content.split('\n').
ContentJson ==
    [json |-> [type |-> "list",
               items |-> << [ip |-> "1.1.1.1", port |-> 80],
                            [ip |-> "1.1.1.1", port |-> 80] >>],
     lines |-> << <<"[{\"ip\"", ":", " \"1.1.1.1\", \"port\"", ":", " 80}, ...]">> >>]
ContentText ==
    [json |-> [type |-> "invalid", items |-> <<>>],
     lines |-> << CandA, <<" ">> \o CandB \o <<"\r">>, <<"# no proxies below">>, <<>> >>]

SourceTransportError ==
    [kind |-> "raise", exc |-> [cls |-> "RequestException", msg |-> <<"ConnectionError">>]]
SourceResponse(code, content) ==
    [kind |-> "response", status_code |-> code, text |-> content]

SourceResponses ==
    {SourceTransportError, SourceResponse(503, ContentText),
     SourceResponse(200, ContentJson), SourceResponse(200, ContentText)}

\* [f(x) for x in seq if keep(x)] over the lines of a body
RECURSIVE stripped_lines(_, _)
stripped_lines(lines, nonempty) ==
    IF lines = <<>> THEN <<>>
    ELSE LET line == Head(lines) IN
         IF contains(line, ":") /\ (nonempty => strip(line) # <<>>)
         THEN <<strip(line)>> \o stripped_lines(Tail(lines), nonempty)
         ELSE stripped_lines(Tail(lines), nonempty)

\* proxy_finder.py lines 44-48
parse_free_proxy_list(content) == <<>>

\* json.loads(content) and the comprehension of line 54
parse_json_list(content) ==
    IF content.json.type = "invalid"
    THEN Raise("Exception", <<"Expecting value">>)
    ELSE IF content.json.type # "list"
            \/ \E i \in 1..Len(content.json.items) :
                  ~({"ip", "port"} \subseteq DOMAIN content.json.items[i])
    THEN Raise("Exception", <<"'ip'">>)
    ELSE Return([i \in 1..Len(content.json.items) |->
                   <<content.json.items[i].ip, ":",
                     ToString(content.json.items[i].port)>>])

\* proxy_finder.py lines 50-57
parse_proxy_list_download(content) ==
    LET r == parse_json_list(content) IN
    IF r.tag = "return" THEN r.value
    ELSE stripped_lines(content.lines, FALSE)

\* proxy_finder.py lines 59-61
parse_proxyscrape(content) == stripped_lines(content.lines, TRUE)

\* source['parser'](response.text)
call_parser(source, content) ==
    CASE source.parser = "parse_free_proxy_list" -> Return(parse_free_proxy_list(content))
      [] source.parser = "parse_proxy_list_download" -> Return(parse_proxy_list_download(content))
      [] source.parser = "parse_proxyscrape" -> Return(parse_proxyscrape(content))
      [] OTHER -> Raise("Exception", <<"not callable">>)

\* The body of the try block, lines 66-77.
fetch_proxy_list_try(source, response) ==
    IF response.kind = "raise"
    THEN [tag |-> "raise", exc |-> response.exc]
    ELSE IF response.status_code = 200
    THEN call_parser(source, response.text)
    ELSE Return(<<>>)

\* A variant without the handlers of lines 79-84.
fetch_proxy_list_unhandled(source, response) == fetch_proxy_list_try(source, response)

\* proxy_finder.py lines 63-84
fetch_proxy_list(source, response) ==
    LET r == fetch_proxy_list_try(source, response) IN
    IF r.tag = "return" THEN r
    ELSE IF IsRequestException(r.exc) THEN Return(<<>>)
    ELSE IF IsException(r.exc) THEN Return(<<>>)
    ELSE r

(***************************************************************************)
(* State.                                                                  *)
(*   tool, pc          which program runs, and where its main thread is    *)
(*   proxies           check_proxies_from_file: the candidates read        *)
(*   all_proxies       find_working_proxies: the candidates collected      *)
(*   max_workers, num_threads, work_queue, running                         *)
(*                     the ThreadPoolExecutor in use: its cap, its         *)
(*                     threads, the queued futures, the futures a thread   *)
(*                     is running                                          *)
(*   futures           future_to_proxy / future_to_source, in submit order *)
(*   yielded           the futures as_completed has handed to the loop     *)
(*   results, working_count, working_proxies                               *)
(*                     what the loops accumulate                           *)
(*   stdout            the line printed per outcome; summary the last line *)
(*   returned          what the function returned to main                  *)
(*   output            the files main wrote                                *)
(*   call, outcome     one call of check_proxy alone and what it gave      *)
(***************************************************************************)
VARIABLES tool, pc, proxies, all_proxies, max_proxies_per_source,
          max_workers, num_threads, work_queue, running, futures, yielded,
          results, working_count, working_proxies, stdout, summary,
          returned, output, call, outcome

poolVars == <<max_workers, num_threads, work_queue, running, futures>>
loopVars == <<yielded, results, working_count, working_proxies, stdout>>
inputVars == <<proxies, all_proxies, max_proxies_per_source>>
endVars == <<summary, returned, output>>
proberVars == <<call, outcome>>
vars == <<tool, pc, inputVars, poolVars, loopVars, endVars, proberVars>>

None == [tag |-> "none"]
NoResponse == [kind |-> "none"]
NoCall == [proxy |-> <<>>, response |-> NoResponse]

WorkerCaps(t) ==
    (1..MaxWorkers)
    \cup {IF t = "checker" THEN checker_default_max_workers
                           ELSE finder_default_max_workers}

PerSourceCaps == 1..MaxPerSource

\* Nothing has run yet.
Idle ==
    /\ proxies = <<>>
    /\ all_proxies = <<>>
    /\ max_proxies_per_source = 0
    /\ max_workers = 0
    /\ num_threads = 0
    /\ work_queue = <<>>
    /\ running = {}
    /\ futures = <<>>
    /\ yielded = {}
    /\ results = <<>>
    /\ working_count = 0
    /\ working_proxies = <<>>
    /\ stdout = <<>>
    /\ summary = <<>>
    /\ returned = None
    /\ output = None
    /\ outcome = None

Init ==
    /\ tool \in {"checker", "finder"}
    /\ pc = "main"
    /\ call = NoCall
    /\ Idle

(***************************************************************************)
(* ThreadPoolExecutor and as_completed.                                    *)
(***************************************************************************)
\* A variant that counts a waiting thread as idle although a queued item has
\* already claimed it.
idle_threads_stale == num_threads - Cardinality(running)

\* Threads that wait for work no queued item has claimed yet.
idle_threads == num_threads - Cardinality(running) - Len(work_queue)

\* A variant that starts a thread with every submit, whatever the cap.
adjust_thread_count_uncapped == num_threads + 1

\* A variant that stops starting threads one short of the cap.
adjust_thread_count_short ==
    IF idle_threads > 0 THEN num_threads
    ELSE IF num_threads < max_workers - 1 THEN num_threads + 1
    ELSE num_threads

\* executor.submit starts a thread when none is idle and the cap allows.
adjust_thread_count ==
    IF idle_threads > 0 THEN num_threads
    ELSE IF num_threads < max_workers THEN num_threads + 1
    ELSE num_threads

\* A variant that submits each distinct candidate once (first occurrence).
RECURSIVE first_occurrences(_)
first_occurrences(xs) ==
    IF xs = <<>> THEN <<>>
    ELSE LET rest == first_occurrences(SubSeq(xs, 1, Len(xs) - 1)) IN
         IF xs[Len(xs)] \in Range(rest) THEN rest ELSE Append(rest, xs[Len(xs)])

submitted_items_unique ==
    IF pc = "fetch_submit" THEN sources
    ELSE IF tool = "checker" THEN first_occurrences(proxies)
    ELSE all_proxies

\* The sequence the submitting comprehension iterates over.
submitted_items ==
    IF pc = "fetch_submit" THEN sources
    ELSE IF tool = "checker" THEN proxies
    ELSE all_proxies

\* Probes dispatched to a worker and not yet returned.
in_flight == running

\* A variant that yields a finished future again.
completed_again == {i \in 1..Len(futures) : futures[i].state = "FINISHED"}

\* as_completed yields a finished future it has not yielded yet.
completed == {i \in 1..Len(futures) : futures[i].state = "FINISHED"} \ yielded

\* A variant that ends the iteration after the first future.
exhausted_after_first == yielded # {}

\* as_completed is exhausted once every future has been yielded.
exhausted == yielded = 1..Len(futures)

\* shutdown(wait=True) on leaving the with block joins the threads.
threads_joined == work_queue = <<>> /\ running = {}

\* One executor.submit(fn, item) of the dict comprehension.
Submit ==
    /\ pc \in {"submit", "fetch_submit"}
    /\ LET i == Len(futures) + 1 IN
       /\ i <= Len(submitted_items)
       /\ futures' = Append(futures, [arg |-> submitted_items[i],
                                      state |-> "PENDING",
                                      result |-> None,
                                      response |-> NoResponse])
       /\ work_queue' = Append(work_queue, i)
       /\ num_threads' = adjust_thread_count
       /\ pc' = IF i < Len(submitted_items) THEN pc
                ELSE IF pc = "submit" THEN "as_completed"
                ELSE "fetch_as_completed"
    /\ UNCHANGED <<tool, inputVars, max_workers, running, loopVars, endVars, proberVars>>

\* A free thread takes the next work item off the queue.
WorkerStart ==
    /\ work_queue # <<>>
    /\ Cardinality(running) < num_threads
    /\ LET i == Head(work_queue) IN
       /\ work_queue' = Tail(work_queue)
       /\ running' = running \cup {i}
       /\ futures' = [futures EXCEPT ![i].state = "RUNNING"]
    /\ UNCHANGED <<tool, pc, inputVars, max_workers, num_threads, loopVars, endVars,
                   proberVars>>

\* Is the executor in use the one that fetches the sources?
fetching == pc \in {"fetch_submit", "fetch_as_completed", "fetch_raised"}

\* A variant in which a probe's request fails while another probe is in
\* flight, whatever the endpoint would answer.
WorkerFinish_contended ==
    \E i \in running :
        /\ \/ /\ fetching
              /\ \E response \in SourceResponses :
                    futures' = [futures EXCEPT
                        ![i].state = "FINISHED",
                        ![i].response = response,
                        ![i].result = fetch_proxy_list(futures[i].arg, response)]
           \/ /\ ~fetching
              /\ \E response \in RunnerResponses :
                    futures' = [futures EXCEPT
                        ![i].state = "FINISHED",
                        ![i].response = response,
                        ![i].result = probe(tool, futures[i].arg,
                            IF Cardinality(running) > 1
                            THEN TransportError ELSE response)]
        /\ running' = running \ {i}
        /\ UNCHANGED <<tool, pc, inputVars, max_workers, num_threads, work_queue,
                       loopVars, endVars, proberVars>>

\* A variant in which the worker itself appends its outcome to results.
WorkerFinish_appending ==
    \E i \in running :
        /\ \/ /\ fetching
              /\ \E response \in SourceResponses :
                    futures' = [futures EXCEPT
                        ![i].state = "FINISHED",
                        ![i].response = response,
                        ![i].result = fetch_proxy_list(futures[i].arg, response)]
              /\ results' = results
           \/ /\ ~fetching
              /\ \E response \in RunnerResponses :
                    LET r == probe(tool, futures[i].arg, response) IN
                    /\ futures' = [futures EXCEPT
                          ![i].state = "FINISHED",
                          ![i].response = response,
                          ![i].result = r]
                    /\ results' = IF r.tag = "return" /\ Len(results) < Len(futures)
                                  THEN Append(results, r.value)
                                  ELSE results
        /\ running' = running \ {i}
        /\ UNCHANGED <<tool, pc, inputVars, max_workers, num_threads, work_queue,
                       yielded, working_count, working_proxies, stdout,
                       endVars, proberVars>>

\* The work item runs to its end: fn(arg) returns or raises, and the future
\* holds the result or the exception.
WorkerFinish ==
    \E i \in running :
        /\ \/ /\ fetching
              /\ \E response \in SourceResponses :
                    futures' = [futures EXCEPT
                        ![i].state = "FINISHED",
                        ![i].response = response,
                        ![i].result = fetch_proxy_list(futures[i].arg, response)]
           \/ /\ ~fetching
              /\ \E response \in RunnerResponses :
                    futures' = [futures EXCEPT
                        ![i].state = "FINISHED",
                        ![i].response = response,
                        ![i].result = probe(tool, futures[i].arg, response)]
        /\ running' = running \ {i}
        /\ UNCHANGED <<tool, pc, inputVars, max_workers, num_threads, work_queue,
                       loopVars, endVars, proberVars>>

(***************************************************************************)
(* proxy_checker.py: check_proxies_from_file and main                      *)
(***************************************************************************)
\* The line the loop prints for one outcome (lines 84-88 / 179-183).
report_line(result) ==
    IF result.status = "working"
    THEN [mark |-> "v", proxy |-> result.proxy, time |-> result.response_time,
          ip |-> IF tool = "checker" \/ "real_ip" \in DOMAIN result
                 THEN result.real_ip ELSE "N/A"]
    ELSE [mark |-> "x", proxy |-> result.proxy, error |-> result.error]

\* main calls check_proxies_from_file(filename, max_workers): lines 64-77.
\* A missing file returns [] at once; otherwise the executor is created.
CheckerCall ==
    /\ tool = "checker"
    /\ pc = "main"
    /\ \E f \in Files \cup {NoFile}, w \in WorkerCaps("checker") :
          IF ~f.exists
          THEN /\ returned' = Return(<<>>)
               /\ pc' = "returned"
               /\ UNCHANGED <<proxies, max_workers>>
          ELSE /\ proxies' = load_proxies(f.lines)
               /\ max_workers' = w
               /\ pc' = IF proxies' = <<>> THEN "as_completed" ELSE "submit"
               /\ UNCHANGED returned
    /\ UNCHANGED <<tool, all_proxies, max_proxies_per_source, num_threads, work_queue,
                   running, futures, loopVars, summary, output, proberVars>>

\* The working outcomes of a collection, in its order.
working_only(rs) ==
    LET IsWorking(r) == r.status = "working" IN SelectSeq(rs, IsWorking)

\* A variant of the loop that counts every outcome.
CheckerLoop_count_all ==
    /\ tool = "checker"
    /\ pc = "as_completed"
    /\ \E i \in completed :
          /\ yielded' = yielded \cup {i}
          /\ LET r == futures[i].result IN
             IF r.tag = "raise"
             THEN /\ pc' = "raised"
                  /\ UNCHANGED <<results, working_count, stdout>>
             ELSE /\ results' = Append(results, r.value)
                  /\ working_count' = working_count + 1
                  /\ stdout' = Append(stdout, report_line(r.value))
                  /\ pc' = pc
    /\ UNCHANGED <<tool, inputVars, poolVars, working_proxies, endVars, proberVars>>

\* One iteration of the as_completed loop, lines 80-88.
CheckerLoop ==
    /\ tool = "checker"
    /\ pc = "as_completed"
    /\ \E i \in completed :
          /\ yielded' = yielded \cup {i}
          /\ LET r == futures[i].result IN
             IF r.tag = "raise"
             THEN /\ pc' = "raised"
                  /\ UNCHANGED <<results, working_count, stdout>>
             ELSE /\ results' = Append(results, r.value)
                  /\ working_count' = IF r.value.status = "working"
                                      THEN working_count + 1
                                      ELSE working_count
                  /\ stdout' = Append(stdout, report_line(r.value))
                  /\ pc' = pc
    /\ UNCHANGED <<tool, inputVars, poolVars, working_proxies, endVars, proberVars>>

\* The with block is left (the threads are joined), then lines 90-91; an
\* exception of future.result() leaves it too and ends the program.
CheckerExit ==
    /\ tool = "checker"
    /\ \/ pc = "as_completed" /\ exhausted
       \/ pc = "raised"
    /\ threads_joined
    /\ IF pc = "raised"
       THEN /\ pc' = "crashed"
            /\ UNCHANGED <<summary, returned>>
       ELSE /\ summary' = <<working_count, Len(proxies)>>
            /\ returned' = Return(results)
            /\ pc' = "returned"
    /\ UNCHANGED <<tool, inputVars, poolVars, loopVars, output, proberVars>>

\* A variant that writes the working outcomes only.
CheckerSave_working_only ==
    /\ tool = "checker"
    /\ pc = "returned"
    /\ output' = [json |-> working_only(returned.value)]
    /\ pc' = "done"
    /\ UNCHANGED <<tool, inputVars, poolVars, loopVars, summary, returned, proberVars>>

\* main, lines 102-107: the results are written to <name>_results.json.
CheckerSave ==
    /\ tool = "checker"
    /\ pc = "returned"
    /\ output' = [json |-> returned.value]
    /\ pc' = "done"
    /\ UNCHANGED <<tool, inputVars, poolVars, loopVars, summary, returned, proberVars>>

(***************************************************************************)
(* proxy_finder.py: find_working_proxies and main                          *)
(***************************************************************************)
\* A variant that keeps the list as it is.
list_kept(xs) == {xs}

\* The lists list(set(xs)) can give: the distinct elements, in any order.
list_of_set(xs) ==
    {l \in [1..Cardinality(Range(xs)) -> Range(xs)] : Range(l) = Range(xs)}

\* proxies[:n]
take(xs, n) == SubSeq(xs, 1, IF Len(xs) < n THEN Len(xs) ELSE n)

\* main calls find_working_proxies: lines 137-140, the first executor.
FinderCall ==
    /\ tool = "finder"
    /\ pc = "main"
    /\ max_proxies_per_source' \in PerSourceCaps
    /\ all_proxies' = <<>>
    /\ max_workers' = fetch_max_workers
    /\ pc' = "fetch_submit"
    /\ UNCHANGED <<tool, proxies, num_threads, work_queue, running, futures,
                   loopVars, endVars, proberVars>>

\* One iteration of the first as_completed loop, lines 146-151.
FetchLoop ==
    /\ tool = "finder"
    /\ pc = "fetch_as_completed"
    /\ \E i \in completed :
          /\ yielded' = yielded \cup {i}
          /\ LET r == futures[i].result IN
             IF r.tag = "raise"
             THEN /\ pc' = "fetch_raised"
                  /\ UNCHANGED all_proxies
             ELSE /\ all_proxies' = IF r.value # <<>>
                                    THEN all_proxies \o take(r.value, max_proxies_per_source)
                                    ELSE all_proxies
                  /\ pc' = pc
    /\ UNCHANGED <<tool, proxies, max_proxies_per_source, poolVars, results,
                   working_count, working_proxies, stdout, endVars, proberVars>>

\* The first with block is left, then lines 153-171: the duplicates are
\* removed, the built-in candidates stand in for an empty collection, and
\* the second executor is created with the caller's max_workers.
FetchExit ==
    /\ tool = "finder"
    /\ \/ pc = "fetch_as_completed" /\ exhausted
       \/ pc = "fetch_raised"
    /\ threads_joined
    /\ IF pc = "fetch_raised"
       THEN /\ pc' = "crashed"
            /\ UNCHANGED <<all_proxies, poolVars, yielded>>
       ELSE /\ \E unique \in list_of_set(all_proxies) :
                  all_proxies' = IF unique = <<>> THEN unique \o test_proxies
                                 ELSE unique
            /\ max_workers' \in WorkerCaps("finder")
            /\ num_threads' = 0
            /\ work_queue' = <<>>
            /\ running' = {}
            /\ futures' = <<>>
            /\ yielded' = {}
            /\ pc' = "submit"
    /\ UNCHANGED <<tool, proxies, max_proxies_per_source, results, working_count,
                   working_proxies, stdout, endVars, proberVars>>

\* One iteration of the second as_completed loop, lines 177-183.
FinderLoop ==
    /\ tool = "finder"
    /\ pc = "as_completed"
    /\ \E i \in completed :
          /\ yielded' = yielded \cup {i}
          /\ LET r == futures[i].result IN
             IF r.tag = "raise"
             THEN /\ pc' = "raised"
                  /\ UNCHANGED <<working_proxies, stdout>>
             ELSE /\ working_proxies' = IF r.value.status = "working"
                                        THEN Append(working_proxies, r.value)
                                        ELSE working_proxies
                  /\ stdout' = Append(stdout, report_line(r.value))
                  /\ pc' = pc
    /\ UNCHANGED <<tool, inputVars, poolVars, results, working_count, endVars,
                   proberVars>>

\* The second with block is left, then lines 185-186.
FinderExit ==
    /\ tool = "finder"
    /\ \/ pc = "as_completed" /\ exhausted
       \/ pc = "raised"
    /\ threads_joined
    /\ IF pc = "raised"
       THEN /\ pc' = "crashed"
            /\ UNCHANGED <<summary, returned>>
       ELSE /\ summary' = <<Len(working_proxies)>>
            /\ returned' = Return(working_proxies)
            /\ pc' = "returned"
    /\ UNCHANGED <<tool, inputVars, poolVars, loopVars, output, proberVars>>

\* main, lines 192-201: working_proxies.json and working_proxies.txt.
FinderSave ==
    /\ tool = "finder"
    /\ pc = "returned"
    /\ output' = [json |-> returned.value,
                  txt |-> [i \in 1..Len(returned.value) |->
                             returned.value[i].proxy \o <<"\n">>]]
    /\ pc' = "done"
    /\ UNCHANGED <<tool, inputVars, poolVars, loopVars, summary, returned, proberVars>>

Next ==
    \/ Submit
    \/ WorkerStart
    \/ WorkerFinish
    \/ CheckerCall
    \/ CheckerLoop
    \/ CheckerExit
    \/ CheckerSave
    \/ FinderCall
    \/ FetchLoop
    \/ FetchExit
    \/ FinderLoop
    \/ FinderExit
    \/ FinderSave

Spec == Init /\ [][Next]_vars

\* The threads are scheduled and every probe ends (its timeout bounds it).
FairSpec == Spec /\ WF_vars(Next)

(***************************************************************************)
(* check_proxy alone: one call on one candidate and one response.          *)
(***************************************************************************)
ProberCalls ==
    [proxy : {CandA, CandB, CandMalformed}, response : ProbeResponses]

ProberInit ==
    /\ tool \in {"checker", "finder"}
    /\ pc = "check_proxy"
    /\ call \in ProberCalls
    /\ Idle

Probe ==
    /\ pc = "check_proxy"
    /\ outcome' = probe(tool, call.proxy, call.response)
    /\ pc' = "probed"
    /\ UNCHANGED <<tool, inputVars, poolVars, loopVars, endVars, call>>

ProberSpec == ProberInit /\ [][Probe]_vars

(***************************************************************************)
(* Properties.                                                             *)
(***************************************************************************)
Count(xs, x) == Cardinality({i \in 1..Len(xs) : xs[i] = x})

SameMultiset(xs, ys) ==
    /\ Len(xs) = Len(ys)
    /\ \A x \in Range(xs) \cup Range(ys) : Count(xs, x) = Count(ys, x)

ProxiesOf(rs) == [i \in 1..Len(rs) |-> rs[i].proxy]

\* The candidate sequence handed to the probing Runner.
candidates == IF tool = "checker" THEN proxies ELSE all_proxies

\* The function has returned to main.
HasReturned == returned # None

\* The probing Runner of either tool is the executor in use.
Probing == pc \in {"submit", "as_completed", "raised", "returned", "done"} /\ max_workers > 0

\* C1: when the function returns, the loop has been handed exactly one
\* outcome per entry of the candidate sequence (duplicates included), and
\* the results of check_proxies_from_file have the candidates' multiset of
\* 'proxy' fields.
C1_ExactlyOneOutcomePerCandidate ==
    HasReturned =>
        /\ Cardinality(yielded) = Len(candidates)
        /\ SameMultiset(ProxiesOf(stdout), candidates)
        /\ tool = "checker" =>
              /\ returned.value = results
              /\ SameMultiset(ProxiesOf(results), proxies)

C1_Witness ==
    /\ tool = "checker"
    /\ HasReturned
    /\ Len(proxies) = 3
    /\ proxies[1] = proxies[3]
    /\ proxies[1] # proxies[2]
    /\ max_workers = 2

\* C2: the probes in flight never outnumber the executor's max_workers, and
\* the executor that fetches the sources has max_workers = 5.
C2_InFlightWithinCap ==
    /\ Cardinality(in_flight) <= max_workers
    /\ num_threads <= max_workers
    /\ fetching => max_workers = 5

C2_Witness ==
    /\ Probing
    /\ max_workers = 2
    /\ Cardinality(in_flight) = 2
    /\ work_queue # <<>>

\* C3: once the function has returned (the summary is printed with it),
\* no probe is queued or in flight, every future is finished and has been
\* consumed by the loop, and the collection returned is complete.
C3_ReturnsOnlyWhenAllConsumed ==
    HasReturned =>
        /\ work_queue = <<>>
        /\ in_flight = {}
        /\ Len(futures) = Len(candidates)
        /\ \A i \in 1..Len(futures) : futures[i].state = "FINISHED" /\ i \in yielded
        /\ tool = "checker" => Len(returned.value) = Len(proxies)
        /\ tool = "finder" =>
              Len(returned.value) =
                 Cardinality({i \in 1..Len(futures) :
                                futures[i].result.value.status = "working"})
        /\ Len(futures) > 0 => summary # <<>>

C3_Witness ==
    /\ HasReturned
    /\ Len(futures) = 3
    /\ max_workers = 1
    /\ summary # <<>>

\* C4: with probes that end and threads that are scheduled, every run of
\* either tool ends: main reaches its end.
C4_EventuallyCompletes == <>(pc = "done")

C4_Witness ==
    /\ pc = "done"
    /\ Len(futures) = 3
    /\ max_workers = 1

\* C5: every call of check_proxy gives a record that carries the candidate,
\* whose status is 'working' or 'failed', with 'response_time' present
\* exactly when it is 'working' and 'error' exactly when it is 'failed'.
C5_OutcomeShape ==
    pc = "probed" =>
        /\ outcome.tag = "return"
        /\ outcome.value.proxy = call.proxy
        /\ outcome.value.status \in {"working", "failed"}
        /\ "response_time" \in DOMAIN outcome.value <=> outcome.value.status = "working"
        /\ "error" \in DOMAIN outcome.value <=> outcome.value.status = "failed"

C5_Witness ==
    /\ pc = "probed"
    /\ tool = "finder"
    /\ call.response = HttpResponse(200, BodyNotJson)
    /\ outcome.value.status = "working"

\* A 200 response whose body is no JSON, or no JSON object to take the
\* origin from.
UnparsableSuccess(response) ==
    /\ response.kind = "response"
    /\ response.status_code = 200
    /\ response.body.json # "dict"

\* C6: in both tools a 200 response whose body cannot be parsed gives
\* 'working' with 'response_time' and without 'real_ip'.
C6_ParseFailureStillWorking ==
    (pc = "probed" /\ UnparsableSuccess(call.response)) =>
        /\ outcome.tag = "return"
        /\ outcome.value.status = "working"
        /\ "response_time" \in DOMAIN outcome.value
        /\ "real_ip" \notin DOMAIN outcome.value

\* C7: a transport error gives 'failed' with the error's own message, a
\* response with a code c other than 200 gives 'failed' with "HTTP c", and
\* 'working' is given only for a response with code 200.
C7_ClassificationRules ==
    pc = "probed" =>
        LET r == call.response
            o == outcome.value
        IN  /\ (r.kind = "raise" /\ IsRequestException(r.exc)) =>
                  o.status = "failed" /\ o.error = r.exc.msg
            /\ (r.kind = "response" /\ r.status_code # 200) =>
                  /\ o.status = "failed"
                  /\ o.error = <<"HTTP ", ToString(r.status_code)>>
                  /\ r.status_code = 403 => o.error = <<"HTTP ", "403">>
            /\ o.status = "working" => r.kind = "response" /\ r.status_code = 200

C7_Witness ==
    /\ pc = "probed"
    /\ tool = "finder"
    /\ outcome.value.status = "failed"
    /\ outcome.value.error = <<"HTTP ", "500">>

\* A response that is an error for the probe of the file-check tool.
ProbeError(response) ==
    \/ response.kind = "raise"
    \/ response.status_code # 200
    \/ response.body.json # "dict"

\* C8: no future holds an exception, so future.result() never raises and
\* the loop is never left early; in the file-check tool every error of a
\* probe is an outcome with status 'failed'; and a finished future's
\* outcome is never changed by what happens to the other probes.
C8_NeverRaised ==
    /\ pc \notin {"raised", "fetch_raised", "crashed"}
    /\ ~fetching =>
          \A i \in 1..Len(futures) :
              futures[i].state = "FINISHED" =>
                  /\ futures[i].result.tag = "return"
                  /\ futures[i].result.value.proxy = futures[i].arg
                  /\ (tool = "checker" /\ ProbeError(futures[i].response)) =>
                        futures[i].result.value.status = "failed"

C8_OutcomesKept ==
    \A i \in 1..Len(futures) :
        (futures[i].state = "FINISHED"
           /\ ~(pc = "fetch_as_completed" /\ pc' = "submit")) =>
            (i <= Len(futures') /\ futures'[i] = futures[i])

NoDuplicates(xs) == Cardinality(Range(xs)) = Len(xs)

\* C9: in the aggregation tool the candidates fed to the probing Runner
\* hold no candidate twice, and no two probes are given the same candidate.
C9_NoDuplicateCandidates ==
    (tool = "finder" /\ Probing) =>
        /\ NoDuplicates(all_proxies)
        /\ \A i, j \in 1..Len(futures) :
              futures[i].arg = futures[j].arg => i = j

\* The sources have all answered; one gave the same candidate twice and
\* two of them gave the same candidate.
C9_Witness ==
    /\ tool = "finder"
    /\ pc = "fetch_as_completed"
    /\ exhausted
    /\ max_proxies_per_source = 2
    /\ futures[2].result.value = <<CandA, CandA>>
    /\ futures[4].result.value = <<CandA, CandB>>
    /\ Count(all_proxies, CandA) = 3

\* A response with which a source gives no candidates.
SourceFailed(response) ==
    response.kind = "raise" \/ response.status_code # 200

\* What the sources contribute together: each result cut to
\* max_proxies_per_source.
Contributed ==
    UNION {Range(take(futures[i].result.value, max_proxies_per_source)) :
             i \in 1..Len(futures)}

\* C10: a source that is unreachable or answers with a code other than 200
\* gives an empty list and raises nothing; the loop then holds exactly the
\* candidates of the other sources, and these are the ones the probing
\* Runner is given.
C10_FailedSourceGivesNothing ==
    /\ pc # "fetch_raised"
    /\ fetching =>
          /\ \A i \in 1..Len(futures) :
                futures[i].state = "FINISHED" =>
                    /\ futures[i].result.tag = "return"
                    /\ SourceFailed(futures[i].response) =>
                          futures[i].result.value = <<>>
          /\ (pc = "fetch_as_completed" /\ exhausted) =>
                Range(all_proxies) = Contributed

C10_OthersProbed ==
    (pc = "fetch_as_completed" /\ pc' = "submit" /\ all_proxies # <<>>) =>
        Range(all_proxies') = Contributed

C10_SourceFailureIsolated ==
    []C10_FailedSourceGivesNothing /\ [][C10_OthersProbed]_vars

C10_Witness ==
    /\ pc = "fetch_as_completed"
    /\ exhausted
    /\ futures[2].response = SourceTransportError
    /\ futures[3].response = SourceResponse(503, ContentText)
    /\ futures[4].response = SourceResponse(200, ContentText)
    /\ Range(all_proxies) = {CandA, CandB}

\* open(filename) raised FileNotFoundError: check_proxies_from_file has
\* returned without having created an executor.
InputMissing ==
    tool = "checker" /\ pc \in {"returned", "done"} /\ max_workers = 0

\* C11: when the input file does not exist no probe is dispatched, the
\* results are empty and the run ends there: no result file is written.
C11_MissingFileAborts ==
    InputMissing =>
        /\ futures = <<>>
        /\ returned.value = <<>>
        /\ output = None

\* The outcomes the loop was handed, as the lines it printed, in the order
\* of arrival; and those of them that are 'working'.
ArrivalLines == stdout

WorkingLines ==
    LET IsWorking(l) == l.mark = "v" IN SelectSeq(stdout, IsWorking)

LinesOf(rs) == [k \in 1..Len(rs) |-> report_line(rs[k])]

\* The results of the futures, in submit order.
FutureResults == [i \in 1..Len(futures) |-> futures[i].result.value]

\* C12 as claimed: in both tools the collection written to the file is
\* every outcome the loop was handed, working and failed alike, each once,
\* in the order of arrival.
C12_FullCollectionSerialized ==
    pc = "done" =>
        /\ LinesOf(output.json) = ArrivalLines
        /\ SameMultiset(output.json, FutureResults)

\* C12, amended: the file-check tool writes every outcome, each once, in
\* the order of arrival; the aggregation tool writes exactly the outcomes
\* with status 'working', each once, in the order of arrival (and their
\* candidates, one per line, to working_proxies.txt).
C12_SerializedCollection ==
    pc = "done" =>
        /\ tool = "checker" =>
              /\ LinesOf(output.json) = ArrivalLines
              /\ SameMultiset(output.json, FutureResults)
        /\ tool = "finder" =>
              /\ LinesOf(output.json) = WorkingLines
              /\ SameMultiset(output.json, working_only(FutureResults))
              /\ output.txt = [k \in 1..Len(output.json) |->
                                 output.json[k].proxy \o <<"\n">>]

C12_Witness ==
    /\ tool = "finder"
    /\ pc = "done"
    /\ Len(stdout) = 2
    /\ stdout[1].mark = "x"
    /\ stdout[2].mark = "v"
    /\ stdout[2].proxy = all_proxies[1]
    /\ Len(output.json) = 1

\* The test endpoint is deterministic: probes of the same candidate got the
\* same response.
DeterministicEndpoint ==
    \A i, j \in 1..Len(futures) :
        (futures[i].state = "FINISHED" /\ futures[j].state = "FINISHED"
           /\ futures[i].arg = futures[j].arg) =>
            futures[i].response = futures[j].response

\* What that endpoint answers for candidate c.
EndpointResponse(c) ==
    futures[CHOOSE i \in 1..Len(futures) : futures[i].arg = c].response

\* The class of a response: a tool takes a 200 for 'working' (the
\* file-check tool only if its body is a JSON object), anything else for
\* 'failed'.
ResponseClass(t, response) ==
    IF /\ response.kind = "response"
       /\ response.status_code = 200
       /\ (t = "finder" \/ response.body.json = "dict")
    THEN "working"
    ELSE "failed"

\* The (candidate, status) pairs the loop was handed, in arrival order.
EmittedPairs ==
    [k \in 1..Len(stdout) |->
        <<stdout[k].proxy, IF stdout[k].mark = "v" THEN "working" ELSE "failed">>]

\* C13: with a deterministic endpoint the multiset of (candidate, status)
\* pairs a run yields is fixed by the candidate list and the endpoint's
\* answer per candidate alone: each candidate occurs as often as in the
\* list, always with the status of its response class, whatever the order
\* of completions and the worker cap.  Two runs on the same list and
\* endpoint therefore yield the same multiset.
C13_ScheduleIndependent ==
    (HasReturned /\ DeterministicEndpoint) =>
        /\ \A c \in Range(candidates), s \in {"working", "failed"} :
              Count(EmittedPairs, <<c, s>>) =
                 IF s = ResponseClass(tool, EndpointResponse(c))
                 THEN Count(candidates, c)
                 ELSE 0
        /\ Len(EmittedPairs) = Len(candidates)
        /\ tool = "checker" =>
              \A k \in 1..Len(results) :
                  <<results[k].proxy, results[k].status>> = EmittedPairs[k]

C13_Witness ==
    /\ tool = "checker"
    /\ HasReturned
    /\ DeterministicEndpoint
    /\ max_workers = 2
    /\ proxies = <<CandA, CandB, CandA>>
    /\ EmittedPairs = << <<CandB, "working">>, <<CandA, "failed">>, <<CandA, "failed">> >>

\* A work item is queued and fewer than max_workers items are in flight.
SlotFree == work_queue # <<>> /\ Cardinality(running) < max_workers

\* C14: whenever an item is queued and fewer than max_workers are in flight,
\* a thread is there to take the head of the queue; and with threads that
\* are scheduled a non-empty queue always drains, so every queued item is
\* dispatched and none stays queued for ever.
C14_WorkConserving ==
    /\ [](SlotFree => Cardinality(running) < num_threads)
    /\ (work_queue # <<>>) ~> (work_queue = <<>>)

C14_Witness ==
    /\ SlotFree
    /\ running # {}
    /\ Len(work_queue) = 2
    /\ ~fetching

\* C15: in the file-check tool working_count is, after every iteration of
\* the loop, the number of 'working' entries of results, hence at most
\* len(results); the summary printed when the stream is exhausted is that
\* number over the number N of candidates, and then len(results) = N.
C15_WorkingCount ==
    tool = "checker" =>
        /\ working_count = Len(working_only(results))
        /\ working_count <= Len(results)
        /\ summary # <<>> =>
              /\ summary = <<Len(working_only(results)), Len(proxies)>>
              /\ Len(results) = Len(proxies)

C15_Witness ==
    /\ tool = "checker"
    /\ summary = <<1, 3>>
    /\ results[2].status = "working"
    /\ working_count = 1

\* How far a future is: queued, taken by a worker, done.
Progress(i) ==
    CASE futures[i].state = "PENDING" -> 0
      [] futures[i].state = "RUNNING" -> 1
      [] futures[i].state = "FINISHED" -> 2

\* The i-th future is the one invocation for the i-th candidate, it is in
\* one place only (once in the queue, or with a worker, or done), and the
\* loop has run once for each future it was handed.
C16_OneFuturePerCandidate ==
    Probing =>
        /\ Len(futures) <= Len(candidates)
        /\ pc # "submit" => Len(futures) = Len(candidates)
        /\ \A i \in 1..Len(futures) :
              /\ futures[i].arg = candidates[i]
              /\ Count(work_queue, i) = (IF Progress(i) = 0 THEN 1 ELSE 0)
              /\ i \in running <=> Progress(i) = 1
        /\ Range(work_queue) \cup running \subseteq 1..Len(futures)
        /\ \A i \in yielded : i <= Len(futures) /\ Progress(i) = 2
        /\ Len(stdout) = Cardinality(yielded)
        /\ HasReturned => yielded = 1..Len(candidates)

\* A future only moves forward, by one place at a time, so a probe that
\* failed is not queued or run again; and the loop takes one new future per
\* iteration, never one it has had.
C16_NoRedispatch ==
    Probing =>
        /\ Len(futures') >= Len(futures)
        /\ \A i \in 1..Len(futures) :
              /\ Progress(i)' \in {Progress(i), Progress(i) + 1}
              /\ Progress(i) = 2 => futures'[i].result = futures[i].result
        /\ yielded \subseteq yielded'
        /\ Len(stdout') = Len(stdout) + Cardinality(yielded' \ yielded)
        /\ Cardinality(yielded' \ yielded) <= 1

\* C16: every entry of the candidate sequence handed to the Runner is
\* probed by exactly one invocation (none twice: no retry, no re-dispatch;
\* none skipped), and every outcome is consumed exactly once by the loop.
C16_ExactlyOnce == []C16_OneFuturePerCandidate /\ [][C16_NoRedispatch]_vars

C16_Witness ==
    /\ tool = "finder"
    /\ HasReturned
    /\ Len(all_proxies) = 2
    /\ yielded = {1, 2}
    /\ futures[1].result.value.status = "failed"
    /\ futures[2].result.value.status = "failed"
    /\ Len(stdout) = 2

\* Is xs the sequence ys with at most one element appended?
AppendedTo(ys, xs) ==
    \/ xs = ys
    \/ Len(xs) = Len(ys) + 1 /\ SubSeq(xs, 1, Len(ys)) = ys

\* A worker took or finished a work item in this step.
WorkerStep == running' # running

\* The loop consumed a future in this step.
LoopStep ==
    /\ pc \in {"as_completed", "fetch_as_completed"}
    /\ Cardinality(yielded' \ yielded) = 1
    /\ yielded \subseteq yielded'
    /\ running' = running
    /\ futures' = futures

C17_StepFrame ==
    /\ Probing => candidates' = candidates
    /\ WorkerStep => UNCHANGED <<inputVars, loopVars, endVars>>
    /\ (results' # results \/ working_count' # working_count
          \/ working_proxies' # working_proxies \/ stdout' # stdout) =>
            LoopStep /\ ~fetching
    /\ AppendedTo(results, results')
    /\ AppendedTo(working_proxies, working_proxies')
    /\ AppendedTo(stdout, stdout')
    /\ working_count' \in {working_count, working_count + 1}
    /\ \A k \in 1..Len(results) : results'[k] = results[k]

\* C17: a Runner invocation leaves the candidate list as it was; a worker's
\* step changes neither the candidates nor the outcome collection, the
\* counter or the printed lines; these change only in a step of the one
\* as_completed loop, by one append per consumed future, and an outcome
\* once appended keeps its place and its value.
C17_WorkersWriteNothingShared == [][C17_StepFrame]_vars

C17_Witness ==
    /\ tool = "checker"
    /\ pc = "as_completed"
    /\ Len(results) = 1
    /\ results[1].status = "working"
    /\ running # {}
    /\ work_queue # <<>>

\* The call got a 200 whose body is a JSON object.
GotJsonObject ==
    /\ call.response.kind = "response"
    /\ call.response.status_code = 200
    /\ call.response.body.json = "dict"

\* C18 as stated: 'real_ip' is present only on a 'working' outcome whose
\* response body has the origin field, and then is that value; a 200 whose
\* JSON body has no origin field gives an outcome without 'real_ip'.
C18_RealIpOnlyFromOrigin ==
    (pc = "probed" /\ outcome.tag = "return") =>
        /\ "real_ip" \in DOMAIN outcome.value =>
              /\ outcome.value.status = "working"
              /\ GotJsonObject
              /\ "origin" \in DOMAIN call.response.body
              /\ outcome.value.real_ip = call.response.body.origin
        /\ (GotJsonObject /\ "origin" \notin DOMAIN call.response.body) =>
              "real_ip" \notin DOMAIN outcome.value

\* C18, amended: 'real_ip' is present exactly on the outcomes of a 200
\* whose body is a JSON object, which are 'working'; it is the body's origin
\* field if the body has one and the placeholder 'unknown' if not.
C18_RealIpOrPlaceholder ==
    (pc = "probed" /\ outcome.tag = "return") =>
        /\ "real_ip" \in DOMAIN outcome.value <=> GotJsonObject
        /\ "real_ip" \in DOMAIN outcome.value =>
              /\ outcome.value.status = "working"
              /\ outcome.value.real_ip =
                    IF "origin" \in DOMAIN call.response.body
                    THEN call.response.body.origin
                    ELSE "unknown"

C18_Witness ==
    /\ pc = "probed"
    /\ tool = "finder"
    /\ call.response = HttpResponse(200, BodyNoOrigin)
    /\ outcome.value.status = "working"
    /\ outcome.value.real_ip = "unknown"

\* The probing Runner of the aggregation tool always has candidates, probes
\* only these, and so never returns from an empty stream.
C19_NeverEmpty ==
    (tool = "finder" /\ Probing) =>
        /\ all_proxies # <<>>
        /\ \A i \in 1..Len(futures) : futures[i].arg \in Range(all_proxies)
        /\ HasReturned => stdout # <<>>

\* On leaving the fetch phase: with nothing contributed the collection is
\* the four built-in candidates; otherwise it is what the sources
\* contributed, each once, and nothing else.
C19_FallbackStep ==
    (tool = "finder" /\ pc = "fetch_as_completed" /\ pc' = "submit") =>
        /\ Contributed = {} <=> all_proxies = <<>>
        /\ IF Contributed = {}
           THEN all_proxies' = test_proxies /\ Len(all_proxies') = 4
           ELSE /\ Range(all_proxies') = Contributed
                /\ Len(all_proxies') = Cardinality(Contributed)
        /\ Range(all_proxies') \subseteq Contributed \cup Range(test_proxies)

\* C19: in the aggregation tool the collection given to the probing Runner
\* is never empty: exactly when the sources together contribute nothing,
\* the four built-in candidates are taken and probed, and when something
\* was collected no built-in candidate is added; every probed candidate
\* comes from a source or is a built-in one.
C19_FallbackCandidates == []C19_NeverEmpty /\ [][C19_FallbackStep]_vars

C19_Witness ==
    /\ tool = "finder"
    /\ pc = "done"
    /\ all_proxies = test_proxies
    /\ Len(stdout) = 4
    /\ \A i \in 1..4 : futures[i].arg = test_proxies[i]

====
